---- MODULE Spec2Model ----
(***************************************************************************)
(* Model of the automatic backup scheduler of bytebase                     *)
(* (server/backup_runner.go): BackupRunner.Run, the periodic loop, and     *)
(* BackupRunner.scheduleBackupTask, the Backup -> Pipeline -> Stage ->     *)
(* Task construction, run by any number of goroutines and scheduler        *)
(* processes against one shared store; and of ProjectService.FindProject    *)
(* (store/project.go), the find-one operation of the store.                *)
(*                                                                         *)
(* Strings are sequences of one-character strings, so that formatting      *)
(* (fmt.Sprintf, strings.ReplaceAll) is computed character by character.   *)
(***************************************************************************)
EXTENDS Integers, Sequences, FiniteSets, TLC

VARIABLES
    now,        \* the wall clock as last read, Unix seconds (time.Now().UTC().Unix())
    runner,     \* per scheduler process: the loop of Run, between two ticks
    attempts,   \* the goroutines launched at line 73, finished ones included
    backups,    \* store table backup, in insertion order (ID = position)
    pipelines,  \* store table pipeline
    stages,     \* store table stage
    tasks,      \* store table task
    faults,     \* the failures injected so far (history)
    log,        \* the lines written to the logger (history)
    projects,   \* store table project, with the members of each project
    found       \* the last call of FindProject: its arguments and what it returned

vars ==
    <<now, runner, attempts, backups, pipelines, stages, tasks, faults, log, projects, found>>

store == <<backups, pipelines, stages, tasks>>

projectVars == <<projects, found>>

-----------------------------------------------------------------------------
(* Bounds of the model *)

NumRunners == 2      \* scheduler processes sharing the store
NumDatabases == 3    \* databases, one backup setting each
MaxTicks == 2        \* ticks executed by all loops together
MaxClock == 2        \* clock samples after the start time
MaxFaults == 1       \* injected failures (errors and panics) per behaviour
MaxConcurrent == 2   \* goroutines between their first store call and their return
MaxProjects == 2     \* rows of the project table

(* Fixture values: the sampled clock and the configured interval *)

StartTime == 83820   \* Thursday 1970-01-01 23:17:00 UTC
ClockStep == 1500    \* the clock is sampled every 25 minutes
backupRunnerInterval == 600

(* Program constants *)

SecondsPerHour == 3600
SecondsPerDay == 86400
HoursPerDay == 24
DaysPerWeek == 7
EpochWeekday == 4    \* 1970-01-01 was a Thursday; time.Weekday counts from Sunday = 0
SYSTEM_BOT_ID == 1

Runners == 1..NumRunners
SettingIds == 1..NumDatabases
\* The clock values a time.Now() can return: time never goes back
Instants == {StartTime + i * ClockStep : i \in 0..MaxClock}

-----------------------------------------------------------------------------
(* Strings and formatting *)

Digits == <<"0", "1", "2", "3", "4", "5", "6", "7", "8", "9">>

RECURSIVE FormatNat(_)
FormatNat(n) ==
    IF n < 10 THEN <<Digits[n + 1]>>
    ELSE FormatNat(n \div 10) \o <<Digits[(n % 10) + 1]>>

\* fmt.Sprintf("%v", n) for an integer n
FormatInt(n) == IF n < 0 THEN <<"-">> \o FormatNat(0 - n) ELSE FormatNat(n)

HasPrefix(s, p) == Len(s) >= Len(p) /\ SubSeq(s, 1, Len(p)) = p

RECURSIVE ReplaceAll(_, _, _)
\* strings.ReplaceAll for a non-empty old: non-overlapping matches, left to right
ReplaceAll(s, old, new) ==
    IF s = <<>> THEN <<>>
    ELSE IF HasPrefix(s, old)
         THEN new \o ReplaceAll(SubSeq(s, Len(old) + 1, Len(s)), old, new)
         ELSE <<Head(s)>> \o ReplaceAll(Tail(s), old, new)

TimePlaceholder == <<"{", "{", "T", "I", "M", "E", "}", "}">>
AutoBackupPrefix == <<"a", "u", "t", "o", "-", "b", "a", "c", "k", "u", "p", "-">>
SqlSuffix == <<".", "s", "q", "l">>
CommentHead ==
    <<"A", "u", "t", "o", "m", "a", "t", "i", "c", " ", "b", "a", "c", "k", "u", "p", " ",
      "f", "o", "r", " ", "d", "a", "t", "a", "b", "a", "s", "e", " ">>
CommentAt == <<" ", "a", "t", " ">>

-----------------------------------------------------------------------------
(* Time: lines 46-53 of Run *)

\* Variant: the time is not truncated to the hour
TruncateHourNone(u) == u

\* time.Now().UTC().Truncate(time.Hour), as Unix seconds
TruncateHour(u) == u - (u % SecondsPerHour)

\* t.Hour() and int(t.Weekday()) of a UTC time given as Unix seconds
HourOf(u) == (u \div SecondsPerHour) % HoursPerDay
WeekdayOf(u) == ((u \div SecondsPerDay) + EpochWeekday) % DaysPerWeek

\* Variant: the weekday is taken in a local zone eight hours behind UTC
BackupSettingsMatchLocalWeekday(t) ==
    [Hour |-> HourOf(t), DayOfWeek |-> WeekdayOf(t - 8 * SecondsPerHour)]

\* match := &api.BackupSettingsMatch{Hour: t.Hour(), DayOfWeek: int(t.Weekday())}
BackupSettingsMatch(t) == [Hour |-> HourOf(t), DayOfWeek |-> WeekdayOf(t)]

\* Variant: the unique key is the hour of the day, not the Unix time of the bucket
UniqueKeyHourOfDay(t) == FormatInt(HourOf(t))

\* uniqueKey := fmt.Sprintf("%v", t.Unix())
UniqueKey(t) == FormatInt(t)

-----------------------------------------------------------------------------
(* The configuration the scheduler reads: databases and backup settings *)

NoDatabase == [ID |-> 0]

PathTemplateA == TimePlaceholder \o <<"/", "{", "T", "}">> \o TimePlaceholder

DatabaseIdOf(sid) == 40 + sid

\* The composed view of a database: its instance and the instance's environment
DatabaseOf(id) ==
    LET env == 1 + (id % 2) IN
    [ID |-> id,
     Name |-> <<"d", "b">> \o FormatInt(id),
     InstanceId |-> 10 + id,
     Instance |-> [ID |-> 10 + id,
                   EnvironmentId |-> env,
                   Environment |-> [ID |-> env, Name |-> <<"e", "n", "v">> \o FormatInt(env)]]]

\* Settings 1 and 2 are due Thursday 23h, setting 3 Thursday 0h, setting 4 Friday 0h
SettingOf(sid) ==
    [ID |-> sid,
     DatabaseId |-> DatabaseIdOf(sid),
     Hour |-> IF sid \in {1, 2} THEN 23 ELSE 0,
     DayOfWeek |-> IF sid \in {1, 2, 3} THEN 4 ELSE 5,
     PathTemplate |-> IF sid % 2 = 1 THEN PathTemplateA ELSE <<>>,
     Database |-> NoDatabase]

RECURSIVE SettingsFrom(_)
SettingsFrom(sid) ==
    IF sid > NumDatabases THEN <<>> ELSE <<SettingOf(sid)>> \o SettingsFrom(sid + 1)

AllSettings == SettingsFrom(1)

MatchesSetting(match, bs) == bs.Hour = match.Hour /\ bs.DayOfWeek = match.DayOfWeek

\* BackupService.FindBackupSettingsMatch when it succeeds
FindBackupSettingsMatch(match) ==
    SelectSeq(AllSettings, LAMBDA bs : MatchesSetting(match, bs))

\* Server.ComposeDatabaseByFind(&api.DatabaseFind{ID: &id}) when it succeeds
ComposeDatabaseByFind(id) == DatabaseOf(id)

-----------------------------------------------------------------------------
(* The store: create operations and their error codes *)

NoError == "nil"
ECONFLICT == "conflict"
EINTERNAL == "internal"

BackupStatusPendingCreate == "PENDING_CREATE"
BackupTypeAutomatic == "AUTOMATIC"
BackupStorageBackendLocal == "LOCAL"
TaskPending == "PENDING"
TaskDatabaseBackup == "bb.task.database.backup"

\* The uniqueness constraint of the backup table: (database, name)
BackupExists(tbl, create) ==
    \E i \in 1..Len(tbl) :
        tbl[i].DatabaseId = create.DatabaseId /\ tbl[i].Name = create.Name

\* The error code of BackupService.CreateBackup; failure is an injected internal failure
CreateBackupError(tbl, create, failure) ==
    IF failure THEN EINTERNAL
    ELSE IF BackupExists(tbl, create) THEN ECONFLICT
    ELSE NoError

\* The error code of the create operations that have no uniqueness constraint
CreateError(failure) == IF failure THEN EINTERNAL ELSE NoError

\* The row a create operation inserts and returns: the request, with the next ID.
\* by is history: the goroutine that issued the request.
InsertedRow(tbl, create, by) ==
    [f \in (DOMAIN create) \cup {"ID", "by"} |->
        IF f = "ID" THEN Len(tbl) + 1
        ELSE IF f = "by" THEN by
        ELSE create[f]]

-----------------------------------------------------------------------------
(* scheduleBackupTask: the values it computes (lines 92-153) *)

\* key := fmt.Sprintf("auto-backup-%s-%v", uniqueKey, backupSetting.DatabaseId)
BackupKey(uniqueKey, backupSetting) ==
    AutoBackupPrefix \o uniqueKey \o <<"-">> \o FormatInt(backupSetting.DatabaseId)

\* path: the template with {{TIME}} replaced, or <environment>-<database>-<epoch>.sql
BackupPath(backupSetting, epoch) ==
    IF backupSetting.PathTemplate # <<>>
    THEN ReplaceAll(backupSetting.PathTemplate, TimePlaceholder, FormatInt(epoch))
    ELSE backupSetting.Database.Instance.Environment.Name \o <<"-">>
         \o backupSetting.Database.Name \o <<"-">> \o FormatInt(epoch) \o SqlSuffix

\* fmt.Sprintf("Automatic backup for database %s at %v", backupSetting.Database.Name, epoch)
BackupComment(backupSetting, epoch) ==
    CommentHead \o backupSetting.Database.Name \o CommentAt \o FormatInt(epoch)

BackupCreateOf(backupSetting, uniqueKey, epoch) ==
    [CreatorId |-> SYSTEM_BOT_ID,
     DatabaseId |-> backupSetting.DatabaseId,
     Name |-> BackupKey(uniqueKey, backupSetting),
     Status |-> BackupStatusPendingCreate,
     Type |-> BackupTypeAutomatic,
     StorageBackend |-> BackupStorageBackendLocal,
     Path |-> BackupPath(backupSetting, epoch),
     Comment |-> BackupComment(backupSetting, epoch)]

\* json.Marshal(api.TaskDatabaseBackupPayload{BackupID: id})
TaskPayload(id) ==
    <<"{", "\"", "b", "a", "c", "k", "u", "p", "I", "d", "\"", ":">> \o FormatInt(id) \o <<"}">>

PipelineCreateOf(key, backupCreate) ==
    [Name |-> key, CreatorId |-> backupCreate.CreatorId]

\* Variant: the stage is bound to the ID of the environment instead of the pipeline
StageCreateOfEnvironmentAsPipeline(key, backupSetting, pipelineId, backupCreate) ==
    [Name |-> key,
     EnvironmentId |-> backupSetting.Database.Instance.EnvironmentId,
     PipelineId |-> backupSetting.Database.Instance.EnvironmentId,
     CreatorId |-> backupCreate.CreatorId]

StageCreateOf(key, backupSetting, pipelineId, backupCreate) ==
    [Name |-> key,
     EnvironmentId |-> backupSetting.Database.Instance.EnvironmentId,
     PipelineId |-> pipelineId,
     CreatorId |-> backupCreate.CreatorId]

\* Variant: the payload carries the pipeline's ID
TaskCreateOfPipelinePayload(key, backupSetting, pipelineId, stageId, backupId, backupCreate) ==
    [Name |-> key,
     PipelineId |-> pipelineId,
     StageId |-> stageId,
     InstanceId |-> backupSetting.Database.InstanceId,
     DatabaseId |-> backupSetting.Database.ID,
     Status |-> TaskPending,
     Type |-> TaskDatabaseBackup,
     Payload |-> TaskPayload(pipelineId),
     CreatorId |-> backupCreate.CreatorId]

TaskCreateOf(key, backupSetting, pipelineId, stageId, backupId, backupCreate) ==
    [Name |-> key,
     PipelineId |-> pipelineId,
     StageId |-> stageId,
     InstanceId |-> backupSetting.Database.InstanceId,
     DatabaseId |-> backupSetting.Database.ID,
     Status |-> TaskPending,
     Type |-> TaskDatabaseBackup,
     Payload |-> TaskPayload(backupId),
     CreatorId |-> backupCreate.CreatorId]

-----------------------------------------------------------------------------
(* scheduleBackupTask: one goroutine, a step per store call *)

ErrCreateBackup == "failed to create backup"
ErrCreatePipeline == "failed to create pipeline"
ErrCreateStage == "failed to create stage"
ErrCreateTask == "failed to create task"

\* go func(backupSetting, uniqueKey, epoch) at line 73; tickTime is history: the
\* clock value the tick read at line 46
NewAttempt(r, tick, tickTime, backupSetting, uniqueKey, epoch) ==
    [id |-> <<r, tick, backupSetting.ID>>,
     r |-> r,
     tick |-> tick,
     tickTime |-> tickTime,
     backupSetting |-> backupSetting,
     uniqueKey |-> uniqueKey,
     epoch |-> epoch,
     pc |-> "CreateBackup",
     backup |-> 0,
     createdPipeline |-> 0,
     createdStage |-> 0,
     code |-> NoError,
     err |-> NoError]

Key(a) == BackupKey(a.uniqueKey, a.backupSetting)
BackupCreate(a) == BackupCreateOf(a.backupSetting, a.uniqueKey, a.epoch)

Return(a, err) == [a EXCEPT !.pc = "done", !.err = err]

\* Variant: every error of CreateBackup is taken for the conflict
AfterCreateBackupAllConflict(a, code, id) ==
    IF code # NoError
    THEN Return([a EXCEPT !.code = code], NoError)
    ELSE [a EXCEPT !.backup = id, !.pc = "CreatePipeline"]

\* Variant: the conflict is not told apart from the other errors
AfterCreateBackupNoConflictCheck(a, code, id) ==
    IF code # NoError
    THEN Return([a EXCEPT !.code = code], ErrCreateBackup)
    ELSE [a EXCEPT !.backup = id, !.pc = "CreatePipeline"]

\* Variant: on a conflict the function goes on instead of returning
AfterCreateBackupFallThrough(a, code, id) ==
    IF code # NoError /\ code # ECONFLICT
    THEN Return([a EXCEPT !.code = code], ErrCreateBackup)
    ELSE [a EXCEPT !.code = code, !.backup = id, !.pc = "CreatePipeline"]

\* Lines 108-119: code is the error code of CreateBackup, id the ID of the created row
AfterCreateBackup(a, code, id) ==
    IF code # NoError
    THEN IF code = ECONFLICT
         THEN Return([a EXCEPT !.code = code], NoError)
         ELSE Return([a EXCEPT !.code = code], ErrCreateBackup)
    ELSE [a EXCEPT !.backup = id, !.pc = "CreatePipeline"]

\* Variant: the error of CreatePipeline is dropped
AfterCreatePipelineSwallow(a, code, id) ==
    IF code # NoError
    THEN Return([a EXCEPT !.code = code], NoError)
    ELSE [a EXCEPT !.createdPipeline = id, !.pc = "CreateStage"]

\* Lines 125-131
AfterCreatePipeline(a, code, id) ==
    IF code # NoError
    THEN Return([a EXCEPT !.code = code], ErrCreatePipeline)
    ELSE [a EXCEPT !.createdPipeline = id, !.pc = "CreateStage"]

\* Variant: the return is missing, the function goes on to the task after a failed stage
AfterCreateStageGoOn(a, code, id) ==
    IF code # NoError
    THEN [a EXCEPT !.code = code, !.pc = "CreateTask"]
    ELSE [a EXCEPT !.createdStage = id, !.pc = "CreateTask"]

\* Lines 133-141
AfterCreateStage(a, code, id) ==
    IF code # NoError
    THEN Return([a EXCEPT !.code = code], ErrCreateStage)
    ELSE [a EXCEPT !.createdStage = id, !.pc = "CreateTask"]

\* Lines 143-157
AfterCreateTask(a, code, id) ==
    IF code # NoError
    THEN Return([a EXCEPT !.code = code], ErrCreateTask)
    ELSE Return(a, NoError)

\* Lines 74-79: the goroutine logs the error scheduleBackupTask returned
AttemptLog(a) ==
    IF a.pc = "done" /\ a.err # NoError
    THEN {[msg |-> "Failed to create automatic backup for database",
           r |-> a.r, tick |-> a.tick, id |-> a.backupSetting.ID,
           databaseID |-> a.backupSetting.DatabaseId, error |-> a.err]}
    ELSE {}

CanFail == Cardinality(faults) < MaxFaults

Fault(kind, r, tick, sid) == [kind |-> kind, r |-> r, tick |-> tick, sid |-> sid]

StoreFault(a, failure) ==
    IF failure THEN {Fault(a.pc, a.r, a.tick, a.backupSetting.ID)} ELSE {}

Running(a) == a \in attempts /\ a.pc # "done" /\ runner[a.r].alive

\* The goroutines that made a store call and have not returned
InFlight == {a \in attempts : Running(a) /\ a.pc # "CreateBackup"}

Step(a, next, failure) ==
    /\ attempts' = (attempts \ {a}) \cup {next}
    /\ log' = log \cup AttemptLog(next)
    /\ faults' = faults \cup StoreFault(a, failure)
    /\ UNCHANGED <<now, runner, projectVars>>

CreateBackup(a) ==
    /\ Running(a) /\ a.pc = "CreateBackup"
    /\ Cardinality(InFlight) < MaxConcurrent
    /\ \E failure \in BOOLEAN :
        LET code == CreateBackupError(backups, BackupCreate(a), failure)
            row == InsertedRow(backups, BackupCreate(a), a.id)
        IN  /\ failure => CanFail
            /\ backups' = IF code = NoError THEN Append(backups, row) ELSE backups
            /\ Step(a, AfterCreateBackup(a, code, row.ID), failure)
            /\ UNCHANGED <<pipelines, stages, tasks>>

CreatePipeline(a) ==
    /\ Running(a) /\ a.pc = "CreatePipeline"
    /\ \E failure \in BOOLEAN :
        LET code == CreateError(failure)
            row == InsertedRow(pipelines, PipelineCreateOf(Key(a), BackupCreate(a)), a.id)
        IN  /\ failure => CanFail
            /\ pipelines' = IF code = NoError THEN Append(pipelines, row) ELSE pipelines
            /\ Step(a, AfterCreatePipeline(a, code, row.ID), failure)
            /\ UNCHANGED <<backups, stages, tasks>>

CreateStage(a) ==
    /\ Running(a) /\ a.pc = "CreateStage"
    /\ \E failure \in BOOLEAN :
        LET code == CreateError(failure)
            row == InsertedRow(stages,
                       StageCreateOf(Key(a), a.backupSetting, a.createdPipeline, BackupCreate(a)),
                       a.id)
        IN  /\ failure => CanFail
            /\ stages' = IF code = NoError THEN Append(stages, row) ELSE stages
            /\ Step(a, AfterCreateStage(a, code, row.ID), failure)
            /\ UNCHANGED <<backups, pipelines, tasks>>

CreateTask(a) ==
    /\ Running(a) /\ a.pc = "CreateTask"
    /\ \E failure \in BOOLEAN :
        LET code == CreateError(failure)
            row == InsertedRow(tasks,
                       TaskCreateOf(Key(a), a.backupSetting, a.createdPipeline, a.createdStage,
                                    a.backup, BackupCreate(a)),
                       a.id)
        IN  /\ failure => CanFail
            /\ tasks' = IF code = NoError THEN Append(tasks, row) ELSE tasks
            /\ Step(a, AfterCreateTask(a, code, row.ID), failure)
            /\ UNCHANGED <<backups, pipelines, stages>>

\* Variant: the goroutine has a deferred recover of its own
ExitedRecovered(rn) == rn

\* A runtime fault inside the goroutine: nothing recovers it, the process exits
Exited(rn) == [rn EXCEPT !.alive = FALSE]

AttemptPanic(a) ==
    /\ Running(a)
    /\ CanFail
    /\ runner' = [runner EXCEPT ![a.r] = Exited(@)]
    /\ faults' = faults \cup {Fault("panic", a.r, a.tick, a.backupSetting.ID)}
    /\ UNCHANGED <<now, attempts, store, log, projectVars>>

-----------------------------------------------------------------------------
(* Run: the loop of one scheduler process (lines 33-86).  A tick body touches  *)
(* no store table, so one tick is one step; the goroutines it launches run on  *)
(* their own.                                                                  *)

\* tickTime and epoch are history: the clock values the last tick read
InitRunner ==
    [alive |-> TRUE, ticks |-> 0, recovered |-> 0, wakeAt |-> 0, tickTime |-> 0, epoch |-> 0]

RECURSIVE TicksUpTo(_)
TicksUpTo(r) == IF r = 0 THEN 0 ELSE runner[r].ticks + TicksUpTo(r - 1)

TotalTicks == TicksUpTo(NumRunners)

\* The clock values a time.Now() can return: time never goes back
Later == {u \in Instants : u >= now}

\* Lines 46-52: the bucket of the tick, the match and the unique key; u is the
\* value of time.Now() at line 46
TickKeys(u) ==
    LET t == TruncateHour(u) IN
    [t |-> t, match |-> BackupSettingsMatch(t), uniqueKey |-> UniqueKey(t)]

\* Lines 54-57: the list the loop ranges over; find is the outcome of the query
MatchList(match, find) ==
    IF find = "ok" THEN FindBackupSettingsMatch(match) ELSE <<>>

Outcomes == {"ok", "error", "panic"}

\* Variant: a failed topology lookup ends the loop (break for continue)
ReachedBreak(find, o, i) == find # "panic" /\ \A j \in 1..(i - 1) : o[j] = "ok"

\* Lines 59-81: iteration i of the loop runs unless the tick body has faulted;
\* a failed topology lookup skips the setting (continue)
Reached(find, o, i) == find # "panic" /\ \A j \in 1..(i - 1) : o[j] # "panic"

\* Variant: the loop is left after its first iteration
LaunchesFirstOnly(find, o, i) == Reached(find, o, i) /\ o[i] = "ok" /\ i = 1

Launches(find, o, i) == Reached(find, o, i) /\ o[i] = "ok"

\* Variant: an error of the match query is raised as a fault
PanicsOnFindError(find, list, o) ==
    find # "ok" \/ \E i \in 1..Len(list) : Reached(find, o, i) /\ o[i] = "panic"

Panics(find, list, o) ==
    find = "panic" \/ \E i \in 1..Len(list) : Reached(find, o, i) /\ o[i] = "panic"

TickFaults(r, tick, find, list, o) ==
    (IF find = "ok" THEN {} ELSE {Fault("find-" \o find, r, tick, 0)})
    \cup {Fault("compose-" \o o[i], r, tick, list[i].ID) :
            i \in {j \in 1..Len(list) : Reached(find, o, j) /\ o[j] # "ok"}}

TickLog(r, tick, find, list, o) ==
    (IF find = "error"
     THEN {[msg |-> "Failed to retrieve backup settings match", r |-> r, tick |-> tick]}
     ELSE {})
    \cup {[msg |-> "Failed to get database for backup setting", r |-> r, tick |-> tick,
           id |-> list[i].ID, databaseID |-> list[i].DatabaseId] :
            i \in {j \in 1..Len(list) : Reached(find, o, j) /\ o[j] = "error"}}
    \cup (IF Panics(find, list, o)
          THEN {[msg |-> "Backup runner PANIC RECOVER", r |-> r, tick |-> tick]}
          ELSE {})

\* Line 71 and lines 73-80: the goroutines of the tick
TickAttempts(r, tick, tickTime, uniqueKey, epoch, find, list, o) ==
    {NewAttempt(r, tick, tickTime,
                [list[i] EXCEPT !.Database = ComposeDatabaseByFind(list[i].DatabaseId)],
                uniqueKey, epoch) :
        i \in {j \in 1..Len(list) : Launches(find, o, j)}}

\* Line 84: time.Sleep(s.backupRunnerInterval), entered at clock value u or later
Sleep(rn, u) == [rn EXCEPT !.wakeAt = u + backupRunnerInterval]

\* Variant: the loop waits for the goroutines it launched before its next tick
AwakeAfterWait(r, u) ==
    /\ u >= runner[r].wakeAt
    /\ \A a \in attempts : a.r = r => a.pc = "done"

\* Line 84: time.Sleep has returned at clock value u
Awake(r, u) == u >= runner[r].wakeAt

\* Variant: no deferred recover, the fault ends the process
NotRecovered(rn, u) == [rn EXCEPT !.alive = FALSE]

\* Lines 36-44: the deferred recover ends the tick body; the loop goes on to line 84
Recovered(rn, u) == [Sleep(rn, u) EXCEPT !.recovered = @ + 1]

\* One iteration of the for loop of line 34.  The processes are alike, so they are
\* numbered in the order of their first ticks.  The first tick starts at once, every
\* later one when time.Sleep has returned.  u is the value of time.Now() at lines 46
\* and 53 (two consecutive reads fall in one sample of the clock), find the outcome
\* of the match query, o[i] the outcome of the topology lookup of the i-th setting.
Tick(r) ==
    LET rn == runner[r]
        tick == rn.ticks + 1
    IN
    /\ rn.alive
    /\ TotalTicks < MaxTicks
    /\ \A q \in Runners : q < r => runner[q].ticks > 0
    /\ \E u \in Later, find \in Outcomes :
        LET keys == TickKeys(u)
            epoch == u
            list == MatchList(keys.match, find)
        IN
        \E o \in [1..Len(list) -> Outcomes] :
            LET bad == TickFaults(r, tick, find, list, o)
                ran == [rn EXCEPT !.ticks = tick, !.tickTime = u, !.epoch = epoch]
            IN
            /\ Awake(r, u)
            /\ \A i \in 1..Len(list) : ~Reached(find, o, i) => o[i] = "ok"
            /\ Cardinality(faults \cup bad) <= MaxFaults
            /\ now' = u
            /\ runner' = [runner EXCEPT ![r] =
                    IF Panics(find, list, o) THEN Recovered(ran, u) ELSE Sleep(ran, u)]
            /\ attempts' = attempts \cup
                    TickAttempts(r, tick, u, keys.uniqueKey, epoch, find, list, o)
            /\ faults' = faults \cup bad
            /\ log' = log \cup TickLog(r, tick, find, list, o)
            /\ UNCHANGED <<store, projectVars>>

-----------------------------------------------------------------------------
(* ProjectService.FindProject (store/project.go) *)

ENOTFOUND == "not_found"

RowStatuses == {"NORMAL", "ARCHIVED"}
Principals == {1, 2}
Workspaces == {1}

\* A nil pointer of a find, for an ID and for a row status
NoId == 0
NoStatus == "nil"

NoProject == [ID |-> NoId]

\* The project tables of n rows: the ID is the primary key, assigned in order
ProjectTablesOf(n) ==
    {[i \in 1..n |->
        [ID |-> i, RowStatus |-> shape[i].RowStatus, WorkspaceId |-> shape[i].WorkspaceId,
         Members |-> shape[i].Members]] :
     shape \in [1..n -> [RowStatus : RowStatuses, WorkspaceId : Workspaces,
                          Members : SUBSET Principals]]}

ProjectTables == UNION {ProjectTablesOf(n) : n \in 0..MaxProjects}

\* api.ProjectFind: every field is optional
ProjectFinds ==
    [ID : {NoId} \cup (1..(MaxProjects + 1)),
     RowStatus : {NoStatus} \cup RowStatuses,
     WorkspaceId : {NoId} \cup Workspaces \cup {2},
     PrincipalId : {NoId} \cup Principals]

\* The WHERE clause of findProjectList, lines 182-194
ProjectMatches(project, find) ==
    /\ find.ID # NoId => project.ID = find.ID
    /\ find.RowStatus # NoStatus => project.RowStatus = find.RowStatus
    /\ find.WorkspaceId # NoId => project.WorkspaceId = find.WorkspaceId
    /\ find.PrincipalId # NoId => find.PrincipalId \in project.Members

\* The rows findProjectList returns.  The query has no ORDER BY, so any of them
\* can come first; the others follow in table order.
FindProjectList(tbl, find, first) ==
    LET rows == SelectSeq(tbl, LAMBDA project : ProjectMatches(project, find)) IN
    IF rows = <<>> THEN <<>>
    ELSE <<first>> \o SelectSeq(rows, LAMBDA project : project # first)

ProjectFailures == {"none", "begin", "query"}

\* Variant: more than one matching row is an error
FindProjectResultErrorOnMany(list, failure) ==
    IF failure # "none" THEN [project |-> NoProject, err |-> EINTERNAL, warned |-> 0]
    ELSE IF Len(list) = 0 THEN [project |-> NoProject, err |-> ENOTFOUND, warned |-> 0]
    ELSE IF Len(list) > 1 THEN [project |-> list[1], err |-> EINTERNAL, warned |-> Len(list)]
    ELSE [project |-> list[1], err |-> NoError, warned |-> 0]

\* Lines 95-111: what FindProject returns, and the count it warns about (0: no
\* warning); failure is a failing BeginTx or a failing query
FindProjectResult(list, failure) ==
    IF failure # "none" THEN [project |-> NoProject, err |-> EINTERNAL, warned |-> 0]
    ELSE IF Len(list) = 0 THEN [project |-> NoProject, err |-> ENOTFOUND, warned |-> 0]
    ELSE IF Len(list) > 1 THEN [project |-> list[1], err |-> NoError, warned |-> Len(list)]
    ELSE [project |-> list[1], err |-> NoError, warned |-> 0]

\* s.l.Warn(fmt.Sprintf("found mulitple projects: %d, expect 1", len(list)))
ProjectWarning(result) ==
    IF result.warned > 0
    THEN {[msg |-> "found mulitple projects, expect 1", count |-> result.warned]}
    ELSE {}

NoFind ==
    [called |-> FALSE, find |-> [ID |-> NoId, RowStatus |-> NoStatus, WorkspaceId |-> NoId,
                                 PrincipalId |-> NoId],
     failure |-> "none", project |-> NoProject, err |-> NoError]

\* One call of FindProject; the transaction is read-only and rolled back (line 100).
\* A call leaves nothing behind that a later call reads, so a behaviour makes one.
FindProject(find, failure) ==
    /\ ~found.called
    /\ \E first \in {projects[i] : i \in 1..Len(projects)} \cup {NoProject} :
        LET list == FindProjectList(projects, find, first)
            result == FindProjectResult(list, failure)
        IN
        /\ first = NoProject <=>
                \A i \in 1..Len(projects) : ~ProjectMatches(projects[i], find)
        /\ first # NoProject => ProjectMatches(first, find)
        /\ found' = [called |-> TRUE, find |-> find, failure |-> failure,
                      project |-> result.project, err |-> result.err]
        /\ log' = log \cup ProjectWarning(result)
        /\ UNCHANGED <<now, runner, attempts, store, faults, projects>>

-----------------------------------------------------------------------------

Init ==
    /\ now = StartTime
    /\ runner = [r \in Runners |-> InitRunner]
    /\ attempts = {}
    /\ backups = <<>>
    /\ pipelines = <<>>
    /\ stages = <<>>
    /\ tasks = <<>>
    /\ faults = {}
    /\ log = {}
    /\ projects = <<>>
    /\ found = NoFind

Next ==
    \/ \E r \in Runners : Tick(r)
    \/ \E a \in attempts : CreateBackup(a)
    \/ \E a \in attempts : CreatePipeline(a)
    \/ \E a \in attempts : CreateStage(a)
    \/ \E a \in attempts : CreateTask(a)
    \/ \E a \in attempts : AttemptPanic(a)

Spec == Init /\ [][Next]_vars

\* The steps in which no store call fails, no topology lookup fails and nothing faults
NextNoFailure ==
    \/ \E r \in Runners : Tick(r) /\ faults' = faults
    \/ \E a \in attempts : CreateBackup(a) /\ faults' = faults
    \/ \E a \in attempts : CreatePipeline(a) /\ faults' = faults
    \/ \E a \in attempts : CreateStage(a) /\ faults' = faults
    \/ \E a \in attempts : CreateTask(a) /\ faults' = faults

\* Some goroutine makes its next store call, and the call succeeds
Progress ==
    \E a \in attempts :
        /\ CreateBackup(a) \/ CreatePipeline(a) \/ CreateStage(a) \/ CreateTask(a)
        /\ faults' = faults

\* The behaviours without failures in which the Go scheduler keeps running the
\* runnable goroutines and every store call returns: while some goroutine can
\* proceed, one does
FairSpec == Init /\ [][NextNoFailure]_vars /\ WF_vars(Progress)

\* The find-one operation on its own: any project table, any call
ProjectInit ==
    /\ now = StartTime
    /\ runner = [r \in Runners |-> InitRunner]
    /\ attempts = {}
    /\ backups = <<>>
    /\ pipelines = <<>>
    /\ stages = <<>>
    /\ tasks = <<>>
    /\ faults = {}
    /\ log = {}
    /\ projects \in ProjectTables
    /\ found = NoFind

ProjectNext == \E find \in ProjectFinds, failure \in ProjectFailures : FindProject(find, failure)

ProjectSpec == ProjectInit /\ [][ProjectNext]_vars

-----------------------------------------------------------------------------
(* Vocabulary of the properties *)

\* The time bucket of a clock value: its UTC hour, counted from the epoch
Bucket(u) == u \div SecondsPerHour
BucketEpoch(u) == Bucket(u) * SecondsPerHour

Rows(tbl) == {tbl[i] : i \in 1..Len(tbl)}
RowsBy(tbl, a) == {row \in Rows(tbl) : row.by = a.id}
Creator(row) == CHOOSE a \in attempts : a.id = row.by

Done(a) == a.pc = "done"

\* Two goroutines scheduling the same database in the same time bucket
SameJob(a, b) ==
    /\ a.backupSetting.DatabaseId = b.backupSetting.DatabaseId
    /\ Bucket(a.tickTime) = Bucket(b.tickTime)

Job(a) == {b \in attempts : SameJob(a, b)}

StoreFaultKinds == {"CreateBackup", "CreatePipeline", "CreateStage", "CreateTask"}

\* No store call of the goroutines of a job failed internally, and none of them faulted
Undisturbed(job) ==
    \A f \in faults : f.kind \in StoreFaultKinds \cup {"panic"} =>
        \A b \in job : <<f.r, f.tick, f.sid>> # b.id

RECURSIVE ParseNat(_)
\* The number a sequence of decimal digits denotes
ParseNat(s) ==
    IF s = <<>> THEN 0
    ELSE ParseNat(SubSeq(s, 1, Len(s) - 1)) * 10
         + (CHOOSE d \in 0..9 : Digits[d + 1] = s[Len(s)])

IsDigits(s) == s # <<>> /\ \A i \in 1..Len(s) : \E d \in 1..10 : Digits[d] = s[i]

\* k reads auto-backup-<e>-<d>, e and d in decimal
IsKeyOf(k, e, d) ==
    /\ HasPrefix(k, AutoBackupPrefix)
    /\ LET body == SubSeq(k, Len(AutoBackupPrefix) + 1, Len(k)) IN
       \E n \in 1..Len(body) :
            /\ body[n] = "-"
            /\ IsDigits(SubSeq(body, 1, n - 1))
            /\ IsDigits(SubSeq(body, n + 1, Len(body)))
            /\ ParseNat(SubSeq(body, 1, n - 1)) = e
            /\ ParseNat(SubSeq(body, n + 1, Len(body))) = d

\* The backup ID a task payload names: the digits between the colon and the brace
PayloadBackupId(payload) ==
    LET n == CHOOSE i \in 1..Len(payload) : payload[i] = ":" IN
    ParseNat(SubSeq(payload, n + 1, Len(payload) - 1))

-----------------------------------------------------------------------------
(* C1 *)

\* C1: when scheduleBackupTask ran at least twice for one database in one time
\* bucket, every run has returned and no store call of these runs failed internally,
\* the runs created exactly one Backup, one Pipeline, one Stage and one Task in
\* total, exactly one run won the Backup-create step, and every run that lost it
\* returned nil.
C1_Idempotent ==
    \A a \in attempts :
        LET job == Job(a)
            by(tbl) == {row \in Rows(tbl) : \E b \in job : row.by = b.id}
        IN
        (Cardinality(job) >= 2 /\ (\A b \in job : Done(b)) /\ Undisturbed(job)) =>
            /\ Cardinality(by(backups)) = 1
            /\ Cardinality(by(pipelines)) = 1
            /\ Cardinality(by(stages)) = 1
            /\ Cardinality(by(tasks)) = 1
            /\ Cardinality({b \in job : b.code = NoError}) = 1
            /\ \A b \in job : b.code \in {NoError, ECONFLICT} /\ b.err = NoError

\* Two runs for one job whose store calls interleaved: the loser returned while the
\* winner was between two store calls, and both have returned
C1_Witness ==
    \E a, b \in attempts :
        /\ a # b /\ SameJob(a, b) /\ Done(a) /\ Done(b) /\ Undisturbed(Job(a))
        /\ a.code = NoError /\ b.code = ECONFLICT
        /\ Len(tasks) >= 1

-----------------------------------------------------------------------------
(* C2 *)

\* C2: whatever the interleaving of processes, ticks and store failures, no two
\* rows of the backup table are automatic backups of the same database and time
\* bucket, and no two rows of the pipeline, stage or task table carry the key of
\* the same database and time bucket.
C2_AtMostOnePerBucket ==
    \A tbl \in {backups, pipelines, stages, tasks} :
        \A i, j \in 1..Len(tbl) :
            i # j =>
                /\ ~SameJob(Creator(tbl[i]), Creator(tbl[j]))
                /\ tbl[i].Name # tbl[j].Name

\* Two processes ticked in the same bucket, both goroutines for one database have
\* returned, and a store failure occurred
C2_Witness ==
    \E a, b \in attempts :
        /\ a.r # b.r /\ SameJob(a, b) /\ Done(a) /\ Done(b)
        /\ a.tickTime # b.tickTime
        /\ faults # {}
        /\ Len(backups) >= 2

-----------------------------------------------------------------------------
(* C3 *)

\* C3: a run whose Backup-create step met the conflict has returned nil, and no row
\* of any table was created by it.
C3_ConflictIsNoOp ==
    \A a \in attempts :
        a.code = ECONFLICT =>
            /\ Done(a) /\ a.err = NoError
            /\ a.backup = 0 /\ a.createdPipeline = 0 /\ a.createdStage = 0
            /\ \A tbl \in {backups, pipelines, stages, tasks} : RowsBy(tbl, a) = {}

C3_Witness ==
    \E a \in attempts : a.code = ECONFLICT /\ Done(a) /\ Len(tasks) >= 1

-----------------------------------------------------------------------------
(* C4 *)

\* A setting is due at clock value u: its hour and weekday are those of u in UTC
Due(sid, u) ==
    /\ SettingOf(sid).Hour = HourOf(u)
    /\ SettingOf(sid).DayOfWeek = WeekdayOf(u)

HasFault(kind, r, tick, sid) == Fault(kind, r, tick, sid) \in faults

\* The tick body of tick k of process r ran to its end: the match query returned
\* its list and nothing faulted
CompleteTick(r, k) ==
    /\ ~HasFault("find-error", r, k, 0)
    /\ ~HasFault("find-panic", r, k, 0)
    /\ \A sid \in SettingIds : ~HasFault("compose-panic", r, k, sid)

\* The goroutine created its whole chain, and the task names its backup
FullChain(a) ==
    /\ \A tbl \in {backups, pipelines, stages, tasks} : Cardinality(RowsBy(tbl, a)) = 1
    /\ \A task \in RowsBy(tasks, a) : \A backup \in RowsBy(backups, a) :
            PayloadBackupId(task.Payload) = backup.ID

\* C4: in the last tick of every process, if the tick body ran to its end, every
\* due setting whose own topology lookup did not fail has its goroutine, whatever
\* happened to the other settings of the tick; and every goroutine that has returned
\* with none of its own store calls failing returned nil and created its whole
\* Backup, Pipeline, Stage, Task chain.
C4_Isolation ==
    /\ \A r \in Runners :
        LET k == runner[r].ticks IN
        (k > 0 /\ CompleteTick(r, k)) =>
            \A sid \in SettingIds :
                (Due(sid, runner[r].tickTime) /\ ~HasFault("compose-error", r, k, sid)) =>
                    \E a \in attempts : a.id = <<r, k, sid>>
    /\ \A a \in attempts :
        (Done(a) /\ a.code = NoError) => (a.err = NoError /\ FullChain(a))

\* The topology lookup of one setting failed, and the goroutine of a later setting
\* of the same tick has created its whole chain
C4_Witness ==
    \E f \in faults : \E a \in attempts :
        /\ f.kind = "compose-error"
        /\ a.r = f.r /\ a.tick = f.tick /\ a.backupSetting.ID > f.sid
        /\ Done(a) /\ a.code = NoError /\ FullChain(a)

-----------------------------------------------------------------------------
(* C5 *)

TickPanics(r) ==
    {f \in faults : f.r = r /\ f.kind \in {"find-panic", "compose-panic"}}

\* C5: every fault of a tick body was recovered and logged; a process whose last
\* tick faulted sleeps the configured interval from that tick on; a process has
\* exited only if one of its goroutines faulted; and a living process that
\* recovered a fault starts its next tick as soon as the interval has passed.
C5_TickSurvives ==
    \A r \in Runners :
        LET rn == runner[r] IN
        /\ rn.recovered = Cardinality(TickPanics(r))
        /\ \A f \in TickPanics(r) :
                [msg |-> "Backup runner PANIC RECOVER", r |-> r, tick |-> f.tick] \in log
        /\ (\E f \in TickPanics(r) : f.tick = rn.ticks) =>
                rn.wakeAt = rn.epoch + backupRunnerInterval
        /\ ~rn.alive => \E f \in faults : f.kind = "panic" /\ f.r = r
        /\ (/\ rn.recovered > 0 /\ rn.alive
            /\ TotalTicks < MaxTicks
            /\ \E u \in Later : u >= rn.wakeAt) => ENABLED Tick(r)

\* The first tick of a process faulted, and the process has run its second tick
C5_Witness ==
    \E r \in Runners :
        /\ \E f \in TickPanics(r) : f.tick = 1
        /\ runner[r].ticks = 2 /\ runner[r].alive

-----------------------------------------------------------------------------
(* C6 *)

\* C6: the key of every goroutine reads auto-backup-<e>-<d> with e the epoch of
\* the UTC hour of its tick time and d its database ID; two goroutines for one
\* database have the same key exactly when their tick times are in the same UTC
\* hour; and the keys the last ticks of two processes derive for a database are
\* the same exactly when the two tick times are in the same UTC hour.
C6_KeyOfBucket ==
    /\ \A a \in attempts :
        IsKeyOf(Key(a), BucketEpoch(a.tickTime), a.backupSetting.DatabaseId)
    /\ \A a, b \in attempts :
        a.backupSetting.DatabaseId = b.backupSetting.DatabaseId =>
            (Key(a) = Key(b) <=> Bucket(a.tickTime) = Bucket(b.tickTime))
    /\ \A r, q \in Runners : \A sid \in SettingIds :
        (runner[r].ticks > 0 /\ runner[q].ticks > 0) =>
            (BackupKey(TickKeys(runner[r].tickTime).uniqueKey, SettingOf(sid))
                = BackupKey(TickKeys(runner[q].tickTime).uniqueKey, SettingOf(sid))
             <=> Bucket(runner[r].tickTime) = Bucket(runner[q].tickTime))

\* Two processes ticked in different UTC hours, and a goroutine holds its key
C6_Witness ==
    /\ \E r, q \in Runners :
        /\ runner[r].ticks > 0 /\ runner[q].ticks > 0
        /\ Bucket(runner[r].tickTime) # Bucket(runner[q].tickTime)
    /\ \E a \in attempts : a.tickTime # BucketEpoch(a.tickTime)

-----------------------------------------------------------------------------
(* C7 *)

\* The path the claim describes, for the epoch e
ClaimedPath(backupSetting, e) ==
    IF backupSetting.PathTemplate # <<>>
    THEN ReplaceAll(backupSetting.PathTemplate, TimePlaceholder, FormatInt(e))
    ELSE backupSetting.Database.Instance.Environment.Name \o <<"-">>
         \o backupSetting.Database.Name \o <<"-">> \o FormatInt(e) \o SqlSuffix

\* C7: the path of every created Backup is the template with the placeholder
\* replaced by the epoch of the bucket (the tick time truncated to the hour), or
\* <environment>-<database>-<bucket epoch>.sql when the template is empty.
C7_PathOfBucketEpoch ==
    \A row \in Rows(backups) :
        row.Path = ClaimedPath(Creator(row).backupSetting, BucketEpoch(Creator(row).tickTime))

-----------------------------------------------------------------------------
(* C8 *)

\* C8: two goroutines for one setting launched by ticks of one time bucket were
\* passed the same epoch and request the same path and the same comment.
C8_StableInBucket ==
    \A a, b \in attempts :
        (a.backupSetting.ID = b.backupSetting.ID /\ Bucket(a.tickTime) = Bucket(b.tickTime)) =>
            /\ a.epoch = b.epoch
            /\ BackupCreate(a).Path = BackupCreate(b).Path
            /\ BackupCreate(a).Comment = BackupCreate(b).Comment

-----------------------------------------------------------------------------
(* C9 *)

IsPrefix(s, t) == Len(s) <= Len(t) /\ SubSeq(t, 1, Len(s)) = s

\* The rows one goroutine created are wired to each other and to its database
Wired(a) ==
    LET database == DatabaseOf(a.backupSetting.DatabaseId)
        key == Key(a)
    IN
    /\ IsKeyOf(key, BucketEpoch(a.tickTime), database.ID)
    /\ \A backup \in RowsBy(backups, a) :
        /\ backup.Name = key /\ backup.DatabaseId = database.ID
        /\ backup.Status = BackupStatusPendingCreate /\ backup.Type = BackupTypeAutomatic
        /\ backup.CreatorId = SYSTEM_BOT_ID
        /\ backup.ID = a.backup
    /\ \A pipeline \in RowsBy(pipelines, a) :
        /\ pipeline.Name = key /\ pipeline.CreatorId = SYSTEM_BOT_ID
        /\ RowsBy(backups, a) # {}
    /\ \A stage \in RowsBy(stages, a) :
        /\ stage.Name = key /\ stage.CreatorId = SYSTEM_BOT_ID
        /\ stage.EnvironmentId = database.Instance.EnvironmentId
        /\ \E pipeline \in RowsBy(pipelines, a) : stage.PipelineId = pipeline.ID
    /\ \A task \in RowsBy(tasks, a) :
        /\ task.Name = key /\ task.CreatorId = SYSTEM_BOT_ID
        /\ task.Type = TaskDatabaseBackup /\ task.Status = TaskPending
        /\ task.InstanceId = database.InstanceId /\ task.DatabaseId = database.ID
        /\ \E pipeline \in RowsBy(pipelines, a) : task.PipelineId = pipeline.ID
        /\ \E stage \in RowsBy(stages, a) : task.StageId = stage.ID
        /\ \E backup \in RowsBy(backups, a) : PayloadBackupId(task.Payload) = backup.ID

AllWired ==
    /\ \A a \in attempts : Wired(a)
    /\ \A tbl \in {backups, pipelines, stages, tasks} :
        \A row \in Rows(tbl) : \E a \in attempts : a.id = row.by

\* No step changes or removes a row
RowsKept ==
    /\ IsPrefix(backups, backups')
    /\ IsPrefix(pipelines, pipelines')
    /\ IsPrefix(stages, stages')
    /\ IsPrefix(tasks, tasks')

\* C9: in every state the Backup, Pipeline, Stage and Task rows a goroutine created
\* carry its backup key as name and the system identity as creator, the Backup is
\* pending-create and automatic, the Stage is bound to the database's environment
\* and to the goroutine's Pipeline, the Task is a pending database-backup task
\* bound to the database's instance and ID and to the goroutine's Pipeline and
\* Stage, and its payload names the Backup of the same goroutine; and no step
\* changes a row once it is created.
C9_Wiring == [](AllWired) /\ [][RowsKept]_vars

\* Two goroutines have created their chains, and the Backup and the Pipeline of one
\* of them have different IDs
C9_Witness ==
    \E a, b \in attempts :
        /\ a # b /\ FullChain(a) /\ FullChain(b)
        /\ a.backup # a.createdPipeline

-----------------------------------------------------------------------------
(* C10 *)

\* C10: a run whose Pipeline, Stage or Task create step failed has returned the
\* error of that step; the Backup it created is still in the store, pending-create;
\* and no Task of the store names that Backup in its payload.
C10_OrphanStays ==
    \A a \in attempts :
        (a.backup # 0 /\ a.code # NoError) =>
            /\ Done(a)
            /\ a.err \in {ErrCreatePipeline, ErrCreateStage, ErrCreateTask}
            /\ \E backup \in Rows(backups) :
                /\ backup.ID = a.backup /\ backup.by = a.id
                /\ backup.Status = BackupStatusPendingCreate
            /\ \A task \in Rows(tasks) : PayloadBackupId(task.Payload) # a.backup

\* A run left its Backup without a Task, and a run of a later tick for the same
\* database and bucket has returned on the conflict
C10_Witness ==
    \E a, b \in attempts :
        /\ a.backup # 0 /\ a.code # NoError /\ Done(a)
        /\ SameJob(a, b) /\ Done(b) /\ b.code = ECONFLICT
        /\ b.tickTime > a.tickTime

-----------------------------------------------------------------------------
(* C11 *)

OwnFault(a, kind) == HasFault(kind, a.r, a.tick, a.backupSetting.ID)
Faulted(a) == \E kind \in StoreFaultKinds \cup {"panic"} : OwnFault(a, kind)

\* A store call of a goroutine of the job failed after the Backup was created
BrokenChain(job) ==
    \E b \in job : \E kind \in StoreFaultKinds \ {"CreateBackup"} : OwnFault(b, kind)

ErrOf(kind) ==
    CASE kind = "CreateBackup" -> ErrCreateBackup
      [] kind = "CreatePipeline" -> ErrCreatePipeline
      [] kind = "CreateStage" -> ErrCreateStage
      [] kind = "CreateTask" -> ErrCreateTask

\* The tables a run has not written to when its store call of the given kind fails
TablesFrom(kind) ==
    CASE kind = "CreateBackup" -> {backups, pipelines, stages, tasks}
      [] kind = "CreatePipeline" -> {pipelines, stages, tasks}
      [] kind = "CreateStage" -> {stages, tasks}
      [] kind = "CreateTask" -> {tasks}

\* C11 as stated: whenever a run for a database has failed at a create step, a run
\* launched for the same database by a later tick whose own store calls did not
\* fail leaves, once all runs of its bucket have returned, the Backup, Pipeline,
\* Stage and Task of the database.
C11_AnotherChance ==
    \A a, b \in attempts :
        (/\ Done(a) /\ a.err # NoError
         /\ a.backupSetting.DatabaseId = b.backupSetting.DatabaseId
         /\ b.tickTime > a.tickTime
         /\ ~Faulted(b)
         /\ \A c \in Job(b) : Done(c)) =>
            \E c \in Job(b) : FullChain(c)

\* C11, amended: a failed store call ends its run at once with the error of that
\* step and nothing written to the later tables; when the only failures of a
\* bucket's runs for a database were at the Backup-create step, the runs of the
\* other ticks of the bucket leave exactly one full Backup, Pipeline, Stage, Task
\* chain once they have all returned; and when a run failed after its Backup was
\* created, no run of the bucket ever creates the Task of that database.
C11_ChanceUnlessBackupExists ==
    \A a \in attempts :
        LET job == Job(a) IN
        /\ \A kind \in StoreFaultKinds :
            OwnFault(a, kind) =>
                /\ Done(a) /\ a.code = EINTERNAL /\ a.err = ErrOf(kind)
                /\ \A tbl \in TablesFrom(kind) : RowsBy(tbl, a) = {}
        /\ (/\ \A b \in job : Done(b)
            /\ ~BrokenChain(job)
            /\ \E b \in job : ~Faulted(b)) =>
                /\ Cardinality({c \in job : FullChain(c)}) = 1
                /\ \A b \in job : ~Faulted(b) => b.err = NoError
        /\ BrokenChain(job) =>
                /\ \A task \in Rows(tasks) : task.Name # Key(a)
                /\ \A b \in job : ~FullChain(b)

\* The Backup-create step of a run failed, and the run a later tick launched for the
\* same database and bucket has created the whole chain
C11_Witness ==
    \E a, b \in attempts :
        /\ OwnFault(a, "CreateBackup") /\ Done(a)
        /\ SameJob(a, b) /\ b.tickTime > a.tickTime
        /\ Done(b) /\ FullChain(b)

-----------------------------------------------------------------------------
(* C12 *)

\* A run whose Backup-create step failed with an error that is not the conflict has
\* returned the error, which the caller logged, and has written to no table
BackupFailureReturned ==
    \A a \in attempts :
        OwnFault(a, "CreateBackup") =>
            /\ Done(a) /\ a.code \notin {NoError, ECONFLICT}
            /\ a.err = ErrCreateBackup
            /\ a.backup = 0 /\ a.createdPipeline = 0 /\ a.createdStage = 0
            /\ \A tbl \in {backups, pipelines, stages, tasks} : RowsBy(tbl, a) = {}
            /\ \E line \in log :
                /\ line.msg = "Failed to create automatic backup for database"
                /\ line.r = a.r /\ line.tick = a.tick /\ line.id = a.backupSetting.ID
                /\ line.databaseID = a.backupSetting.DatabaseId
                /\ line.error = ErrCreateBackup

\* The step in which the Backup-create step of a run fails changes no table, no
\* other run and no loop
BackupFailureConfined ==
    \A a \in attempts :
        (~OwnFault(a, "CreateBackup") /\ OwnFault(a, "CreateBackup")') =>
            /\ store' = store
            /\ runner' = runner
            /\ \A b \in attempts : b # a => b \in attempts'
            /\ Cardinality(attempts') = Cardinality(attempts)

\* C12: a run whose Backup-create step fails with an error other than the conflict
\* returns the error and creates no Backup, Pipeline, Stage or Task; the failing
\* step leaves the tables, the loops and every other run as they were.
C12_BackupFailure == [](BackupFailureReturned) /\ [][BackupFailureConfined]_vars

\* The Backup-create step of one run failed, and the run of the same tick for
\* another database has created its whole chain
C12_Witness ==
    \E a, b \in attempts :
        /\ OwnFault(a, "CreateBackup") /\ Done(a)
        /\ b.r = a.r /\ b.tick = a.tick
        /\ b.backupSetting.DatabaseId # a.backupSetting.DatabaseId
        /\ Done(b) /\ b.err = NoError /\ FullChain(b)

-----------------------------------------------------------------------------
(* C13 *)

\* The runs a step launches
Launched == {a \in attempts' : \A b \in attempts : b.id # a.id}

\* Every run was launched for a setting whose hour and weekday are those of the
\* start of the UTC hour of its tick, with the database of that setting resolved,
\* and no two runs of one tick are for the same setting
LaunchedForDue ==
    \A a \in attempts :
        /\ a.backupSetting.ID \in SettingIds
        /\ Due(a.backupSetting.ID, BucketEpoch(a.tickTime))
        /\ a.backupSetting =
                [SettingOf(a.backupSetting.ID) EXCEPT
                    !.Database = DatabaseOf(SettingOf(a.backupSetting.ID).DatabaseId)]
        /\ a.id = <<a.r, a.tick, a.backupSetting.ID>>
        /\ \A b \in attempts : b.id = a.id => b = a

\* CompleteTick and the failed topology lookup, read from a set of injected failures
CompleteTickIn(fs, r, k) ==
    /\ Fault("find-error", r, k, 0) \notin fs
    /\ Fault("find-panic", r, k, 0) \notin fs
    /\ \A sid \in SettingIds : Fault("compose-panic", r, k, sid) \notin fs

\* A tick of process r launches runs of its own only, none for a setting that is
\* not due, and, when the match query returned its list and the tick body did not
\* fault, exactly one for every due setting whose topology lookup succeeded and
\* none for the others; a step that is no tick launches nothing
TickLaunches ==
    /\ \A r \in Runners :
        runner'[r].ticks # runner[r].ticks =>
            LET k == runner'[r].ticks
                u == runner'[r].tickTime
            IN
            /\ \A a \in Launched : a.r = r /\ a.tick = k /\ a.tickTime = u
            /\ CompleteTickIn(faults', r, k) =>
                \A sid \in SettingIds :
                    Cardinality({a \in Launched : a.backupSetting.ID = sid}) =
                        IF Due(sid, BucketEpoch(u)) /\ Fault("compose-error", r, k, sid) \notin faults'
                        THEN 1 ELSE 0
    /\ (\A r \in Runners : runner'[r].ticks = runner[r].ticks) => Launched = {}

\* C13: every run was launched for a setting whose hour and weekday are the UTC
\* hour and weekday of its tick time truncated to the hour; and every tick whose
\* match query succeeds launches exactly one run for each such setting whose
\* database topology resolves, and no other.
C13_LaunchesDue == [](LaunchedForDue) /\ [][TickLaunches]_vars

\* A process launched runs in its first tick, and its second tick, in the next UTC
\* hour and on the next weekday, ran to its end and launched none
C13_Witness ==
    \E r \in Runners :
        /\ runner[r].ticks = 2 /\ CompleteTick(r, 2)
        /\ WeekdayOf(runner[r].tickTime) # WeekdayOf(StartTime)
        /\ \E a \in attempts : a.r = r /\ a.tick = 1
        /\ \A a \in attempts : a.r = r => a.tick = 1

-----------------------------------------------------------------------------
(* C14 *)

FindErrors == {f \in faults : f.kind = "find-error"}

\* C14: for every tick whose match query returned an error, the error is logged, no
\* run was launched by that tick, no fault was recovered or logged for it, the
\* process went to sleep for the configured interval, and it starts its next tick
\* as soon as the interval has passed.
C14_FindErrorSkipsTick ==
    \A f \in FindErrors :
        LET rn == runner[f.r] IN
        /\ [msg |-> "Failed to retrieve backup settings match", r |-> f.r, tick |-> f.tick]
                \in log
        /\ \A a \in attempts : ~(a.r = f.r /\ a.tick = f.tick)
        /\ [msg |-> "Backup runner PANIC RECOVER", r |-> f.r, tick |-> f.tick] \notin log
        /\ rn.ticks >= f.tick
        /\ rn.recovered = Cardinality(TickPanics(f.r))
        /\ rn.ticks = f.tick => rn.wakeAt = rn.tickTime + backupRunnerInterval
        /\ (/\ rn.alive /\ TotalTicks < MaxTicks
            /\ \E u \in Later : u >= rn.wakeAt) => ENABLED Tick(f.r)

\* The match query of the first tick of a process failed while its settings were
\* due, and its second tick, in the same hour, has launched their runs
C14_Witness ==
    \E f \in FindErrors :
        /\ f.tick = 1 /\ runner[f.r].ticks = 2
        /\ \E a \in attempts :
            /\ a.r = f.r /\ a.tick = 2
            /\ Due(a.backupSetting.ID, runner[f.r].tickTime)

-----------------------------------------------------------------------------
(* C15 *)

Unfinished == {a \in attempts : Running(a)}

\* C15: a living process that has ticked starts its next tick as soon as its sleep
\* is over, whatever the number and the positions of the runs still unfinished;
\* every run belongs to a tick its process has already left, and a process that
\* has ticked is in or past its sleep.
C15_TickDoesNotWait ==
    /\ \A r \in Runners :
        LET rn == runner[r] IN
        /\ rn.ticks > 0 => rn.wakeAt = rn.tickTime + backupRunnerInterval
        /\ (/\ rn.ticks > 0 /\ rn.alive /\ TotalTicks < MaxTicks
            /\ \E u \in Later : u >= rn.wakeAt) => ENABLED Tick(r)
    /\ \A a \in attempts : a.tick <= runner[a.r].ticks

\* Runs of two ticks for one database and bucket are unfinished at once, the one of
\* the earlier tick between two store calls, and every run launched so far by the
\* two ticks is unfinished
C15_Witness ==
    \E a, b \in Unfinished :
        /\ SameJob(a, b) /\ a.tickTime < b.tickTime
        /\ a.pc \in {"CreatePipeline", "CreateStage", "CreateTask"}
        /\ b.pc = "CreateBackup"
        /\ Unfinished = attempts
        /\ Cardinality(Unfinished) >= 4

-----------------------------------------------------------------------------
(* C16 *)

AttemptPanics(r) == {f \in faults : f.r = r /\ f.kind = "panic"}

\* C16: a process in which a run faulted has terminated: its loop starts no tick
\* and none of its runs takes a step any more, and the fault was neither counted
\* nor logged as recovered; a process is terminated only by a fault of one of its
\* runs, never by a fault of a tick body, which is recovered and logged.
C16_AttemptFaultEndsProcess ==
    \A r \in Runners :
        LET rn == runner[r] IN
        /\ AttemptPanics(r) # {} =>
            /\ ~rn.alive
            /\ ~ENABLED Tick(r)
            /\ \A a \in attempts : a.r = r =>
                    ~ENABLED (CreateBackup(a) \/ CreatePipeline(a) \/ CreateStage(a)
                              \/ CreateTask(a) \/ AttemptPanic(a))
        /\ \A f \in AttemptPanics(r) :
            /\ \E a \in attempts : a.id = <<f.r, f.tick, f.sid>>
            /\ f.tick <= rn.ticks
        /\ rn.recovered = Cardinality(TickPanics(r))
        /\ Cardinality({line \in log : line.msg = "Backup runner PANIC RECOVER" /\ line.r = r})
                = Cardinality({f.tick : f \in TickPanics(r)})
        /\ AttemptPanics(r) = {} => rn.alive

\* A run faulted between two store calls; its process has terminated with that run
\* unfinished, although its sleep is over and the tick budget is not used up
C16_Witness ==
    \E r \in Runners : \E f \in AttemptPanics(r) : \E a \in attempts :
        /\ a.id = <<f.r, f.tick, f.sid>>
        /\ a.pc \in {"CreatePipeline", "CreateStage", "CreateTask"}
        /\ ~runner[r].alive
        /\ TotalTicks < MaxTicks
        /\ \E u \in Later : u >= runner[r].wakeAt

-----------------------------------------------------------------------------
(* C17 *)

Ids(tbl) == {tbl[i].ID : i \in 1..Len(tbl)}

\* The rows a step appends to a table
Added(tbl, tblNext) == {tblNext[i] : i \in (Len(tbl) + 1)..Len(tblNext)}

\* The tables refer to each other consistently
Consistent ==
    /\ Len(pipelines) <= Len(backups)
    /\ \A tbl \in {backups, pipelines, stages, tasks} :
        \A i \in 1..Len(tbl) : tbl[i].ID = i
    /\ \A pipeline \in Rows(pipelines) :
        /\ \E backup \in Rows(backups) : backup.Name = pipeline.Name
        /\ Cardinality({stage \in Rows(stages) : stage.PipelineId = pipeline.ID}) <= 1
    /\ \A stage \in Rows(stages) :
        /\ stage.PipelineId \in Ids(pipelines)
        /\ Cardinality({task \in Rows(tasks) : task.StageId = stage.ID}) <= 1
    /\ \A task \in Rows(tasks) :
        /\ task.PipelineId \in Ids(pipelines)
        /\ \E stage \in Rows(stages) :
            stage.ID = task.StageId /\ stage.PipelineId = task.PipelineId
        /\ PayloadBackupId(task.Payload) \in Ids(backups)

\* A row is created after the rows it refers to
CreatedInOrder ==
    /\ \A pipeline \in Added(pipelines, pipelines') :
        \E backup \in Rows(backups) : backup.Name = pipeline.Name
    /\ \A stage \in Added(stages, stages') : stage.PipelineId \in Ids(pipelines)
    /\ \A task \in Added(tasks, tasks') :
        /\ task.PipelineId \in Ids(pipelines)
        /\ task.StageId \in Ids(stages)
        /\ PayloadBackupId(task.Payload) \in Ids(backups)

\* C17: in every state there are no more Pipelines than Backups, every Pipeline
\* has a Backup of the same key, every Stage belongs to an existing Pipeline, every
\* Task belongs to an existing Pipeline and to an existing Stage of that Pipeline
\* and its payload names an existing Backup, a Pipeline has at most one Stage and a
\* Stage at most one Task; and every row is created after the rows it refers to.
C17_Referential == [](Consistent) /\ [][CreatedInOrder]_vars

\* A Backup was left without a Pipeline, and the Task of another database names a
\* Backup whose ID is not the ID of its Pipeline
C17_Witness ==
    /\ Len(pipelines) < Len(backups)
    /\ \E task \in Rows(tasks) :
        /\ PayloadBackupId(task.Payload) # task.PipelineId
        /\ PayloadBackupId(task.Payload) \in Ids(backups)

-----------------------------------------------------------------------------
(* C18 *)

\* Some process ran a tick at clock value u
TickedAt(u) == \E r \in Runners : runner[r].ticks > 0 /\ runner[r].tickTime = u

\* The rows of a table that carry the key of database d in the bucket of u
KeyedRows(tbl, u, d) ==
    LET key == AutoBackupPrefix \o FormatNat(BucketEpoch(u)) \o <<"-">> \o FormatNat(d)
    IN  {row \in Rows(tbl) : row.Name = key}

\* One Backup of database d named with the key of the bucket of u, and one
\* Pipeline, one Stage and one Task for it, bound to each other
ChainExists(u, d) ==
    /\ \A tbl \in {backups, pipelines, stages, tasks} :
        Cardinality(KeyedRows(tbl, u, d)) = 1
    /\ \A backup \in KeyedRows(backups, u, d) : backup.DatabaseId = d
    /\ \A task \in KeyedRows(tasks, u, d) :
        /\ task.DatabaseId = d
        /\ \E backup \in KeyedRows(backups, u, d) :
                PayloadBackupId(task.Payload) = backup.ID
        /\ \E pipeline \in KeyedRows(pipelines, u, d) : task.PipelineId = pipeline.ID
        /\ \E stage \in KeyedRows(stages, u, d) :
                task.StageId = stage.ID /\ stage.PipelineId = task.PipelineId

\* Every setting due at clock value u has the complete chain of its database in the
\* bucket of u
DueChainsExist(u) ==
    \A sid \in SettingIds : Due(sid, u) => ChainExists(u, DatabaseIdOf(sid))

\* C18: when no store call and no topology lookup fails, nothing faults and the
\* goroutines are scheduled fairly, a tick at clock value u leads to a state in
\* which every setting due at u has the complete chain for its database in the
\* bucket of u: one Backup, one Pipeline, one Stage and one Task.
C18_EventuallyChain ==
    \A u \in Instants : TickedAt(u) ~> DueChainsExist(u)

\* Nothing failed, two ticks of one bucket have run, and the chains of both due
\* databases exist
C18_Witness ==
    /\ faults = {}
    /\ \E u, v \in Instants :
        /\ u # v /\ Bucket(u) = Bucket(v) /\ TickedAt(u) /\ TickedAt(v)
        /\ \E sid, tid \in SettingIds :
            /\ sid # tid /\ Due(sid, u) /\ Due(tid, u)
            /\ ChainExists(u, DatabaseIdOf(sid))
            /\ ChainExists(v, DatabaseIdOf(tid))

-----------------------------------------------------------------------------
(* C19 *)

\* The rows of the project table a find matches
Matching(find) ==
    {project \in Rows(projects) :
        /\ find.ID = NoId \/ project.ID = find.ID
        /\ find.RowStatus = NoStatus \/ project.RowStatus = find.RowStatus
        /\ find.WorkspaceId = NoId \/ project.WorkspaceId = find.WorkspaceId
        /\ find.PrincipalId = NoId \/ find.PrincipalId \in project.Members}

ManyWarning(n) == [msg |-> "found mulitple projects, expect 1", count |-> n]

\* C19 as stated: a call whose transaction and query succeed returns NotFound and
\* no entity when nothing matches, returns an error together with one of the
\* matching rows and logs a warning when more than one matches, and returns the
\* matching row without error when exactly one matches.
C19_FindOneErrorsOnMany ==
    (found.called /\ found.failure = "none") =>
        LET n == Cardinality(Matching(found.find)) IN
        /\ n = 0 => found.err = ENOTFOUND /\ found.project = NoProject
        /\ n > 1 => /\ found.err # NoError
                    /\ found.project \in Matching(found.find)
                    /\ ManyWarning(n) \in log
        /\ n = 1 => found.err = NoError /\ Matching(found.find) = {found.project}

\* The result of the last call of FindProject, when its transaction and query
\* succeeded
FindOneResult ==
    (found.called /\ found.failure = "none") =>
        LET n == Cardinality(Matching(found.find)) IN
        /\ n = 0 => found.err = ENOTFOUND /\ found.project = NoProject
        /\ n > 1 => /\ found.err = NoError
                    /\ found.project \in Matching(found.find)
                    /\ ManyWarning(n) \in log
        /\ n = 1 => found.err = NoError /\ Matching(found.find) = {found.project}

\* A call changes no table, and logs only the warning about more than one match
FindOneReadOnly ==
    /\ projects' = projects
    /\ store' = store
    /\ log' # log =>
        /\ found'.failure = "none"
        /\ Cardinality(Matching(found'.find)) > 1
        /\ log' = log \cup {ManyWarning(Cardinality(Matching(found'.find)))}

\* C19, amended: a call whose transaction and query succeed returns NotFound and no
\* entity when nothing matches; returns one of the matching rows without error,
\* and logs a warning with their number, when more than one matches; returns the
\* matching row without error and without warning when exactly one matches; and
\* no call changes the store.
C19_FindOne == [](FindOneResult) /\ [][FindOneReadOnly]_vars

\* A find by principal matched two projects of different status and returned one
\* of them
C19_Witness ==
    /\ found.called /\ found.failure = "none"
    /\ found.find.ID = NoId /\ found.find.PrincipalId # NoId
    /\ Cardinality(Matching(found.find)) = 2
    /\ \E project \in Matching(found.find) : project.RowStatus # found.project.RowStatus
    /\ found.project.ID # NoId

====
